---- MODULE Spec2Model ----
(***************************************************************************)
(* Model of startup-config.js: the script that loads openclaw.json, merges *)
(* the required gateway settings and the agent defaults into it,           *)
(* provisions the Ollama provider from the environment and saves it.       *)
(*                                                                         *)
(* A JavaScript value is a record  [t, s, n, k, e]:                        *)
(*   t  the kind: "undef" "null" "bool" "num" "str" "arr" "obj", and       *)
(*      "throw" for an exception that is propagating;                      *)
(*   s  the text of a string;   n  a number, or 1/0 for true/false;        *)
(*      a number beyond 2^31 - 1 in size is held in s as its decimal text  *)
(*      (the exact value of the double), and so are "NaN", "Infinity" and  *)
(*      "-Infinity";                                                       *)
(*   k  the own string-keyed properties, in property order, as a sequence  *)
(*      of [key, val] (an array's k holds the properties set on the array  *)
(*      object itself, which JSON.stringify does not write);               *)
(*   e  the elements of an array; of a string that holds a character a    *)
(*      string of this module cannot, its UTF-16 code units (s is empty).  *)
(***************************************************************************)
EXTENDS Integers, Sequences, FiniteSets, TLC

VARIABLES file, last, mt

vars == <<file, last, mt>>

----------------------------------------------------------------------------
(* JavaScript values *)

Val(t, s, n, k, e) == [t |-> t, s |-> s, n |-> n, k |-> k, e |-> e]

Undef == Val("undef", "", 0, <<>>, <<>>)
Null == Val("null", "", 0, <<>>, <<>>)
Throw == Val("throw", "", 0, <<>>, <<>>)
Bool(b) == Val("bool", "", IF b THEN 1 ELSE 0, <<>>, <<>>)
Num(n) == Val("num", "", n, <<>>, <<>>)
NaN == Val("num", "NaN", 0, <<>>, <<>>)
Infinity(neg) == Val("num", IF neg THEN "-Infinity" ELSE "Infinity", 0, <<>>, <<>>)
Str(s) == Val("str", s, 0, <<>>, <<>>)
Text(units) == Val("str", "", 0, <<>>, units)
Arr(es) == Val("arr", "", 0, <<>>, es)
Obj(ps) == Val("obj", "", 0, ps, <<>>)
P(key, val) == [key |-> key, val |-> val]
EmptyObj == Obj(<<>>)
EmptyArr == Arr(<<>>)

\* F applied to the value of v: v is evaluated once, as a JavaScript
\* argument or a const is
Bind(v, F(_)) == CHOOSE r \in { F(x) : x \in {v} } : TRUE

\* the values !v is true of
Falsy == { Undef, Null, Bool(FALSE), Num(0), NaN, Str("") }

\* !!v
Truthy(v) == v \notin Falsy

\* typeof v === 'object'
TypeofObject(v) == v.t \in {"null", "arr", "obj"}

\* Array.isArray(v)
IsArray(v) == v.t = "arr"

\* v[key] and v[key] = x raise a TypeError on undefined and null only
CanRead(v) == v.t \notin {"undef", "null", "throw"}

DigitChars == {"0", "1", "2", "3", "4", "5", "6", "7", "8", "9"}

HexChars == DigitChars \cup {"a", "b", "c", "d", "e", "f", "A", "B", "C", "D", "E", "F"}

DigitOf ==
  ("0" :> 0) @@ ("1" :> 1) @@ ("2" :> 2) @@ ("3" :> 3) @@ ("4" :> 4) @@ ("5" :> 5)
  @@ ("6" :> 6) @@ ("7" :> 7) @@ ("8" :> 8) @@ ("9" :> 9)
  @@ ("a" :> 10) @@ ("b" :> 11) @@ ("c" :> 12) @@ ("d" :> 13) @@ ("e" :> 14)
  @@ ("f" :> 15) @@ ("A" :> 10) @@ ("B" :> 11) @@ ("C" :> 12) @@ ("D" :> 13)
  @@ ("E" :> 14) @@ ("F" :> 15)

\* the value of the digit whose character has code unit u: "0" is 48,
\* "A" 65 and "a" 97
DigitValue(u) ==
  CASE u \in 48..57 -> u - 48
    [] u \in 65..70 -> u - 55
    [] u \in 97..102 -> u - 87

\* the characters that are digits of the radix
DigitsOfRadix(radix) == IF radix = 16 THEN HexChars ELSE DigitChars

CharOf == <<"0", "1", "2", "3", "4", "5", "6", "7", "8", "9">>

\* A natural number of any size is the sequence of its decimal digits, the
\* most significant first and not 0; zero is the empty sequence.
DigitsOf(s) == [i \in 1..Len(s) |-> DigitOf[SubSeq(s, i, i)]]

RECURSIVE TextOf(_)
TextOf(d) ==
  IF Len(d) = 0 THEN ""
  ELSE IF Len(d) = 1 THEN CharOf[d[1] + 1]
  ELSE TextOf(SubSeq(d, 1, Len(d) \div 2)) \o TextOf(SubSeq(d, Len(d) \div 2 + 1, Len(d)))

RECURSIVE IntOf(_)
IntOf(d) == IF d = <<>> THEN 0 ELSE 10 * IntOf(SubSeq(d, 1, Len(d) - 1)) + d[Len(d)]

\* d without its leading zeros
Strip(d) ==
  Bind(d, LAMBDA x :
    IF \A i \in 1..Len(x) : x[i] = 0 THEN <<>>
    ELSE SubSeq(x, CHOOSE i \in 1..Len(x) : x[i] # 0 /\ \A j \in 1..(i - 1) : x[j] = 0,
                Len(x)))

\* a < b
Less(a, b) ==
  \/ Len(a) < Len(b)
  \/ /\ Len(a) = Len(b)
     /\ \E i \in 1..Len(a) : a[i] < b[i] /\ \A j \in 1..(i - 1) : a[j] = b[j]

\* d + c, for a digit c
AddDigit(d, c) ==
  Bind(d, LAMBDA x :
    IF x = <<>> THEN (IF c = 0 THEN <<>> ELSE <<c>>)
    ELSE IF x[Len(x)] + c < 10 THEN [x EXCEPT ![Len(x)] = @ + c]
    ELSE (IF \A k \in 1..(Len(x) - 1) : x[k] = 9 THEN <<1>> ELSE <<>>)
         \o [i \in 1..Len(x) |->
               IF i = Len(x) THEN (x[i] + c) % 10
               ELSE IF \A k \in (i + 1)..(Len(x) - 1) : x[k] = 9 THEN (x[i] + 1) % 10
               ELSE x[i]])

\* 2 * d: a digit takes a carry when the digit after it is 5 or more
Twice(d) ==
  Bind(d, LAMBDA x :
    (IF x # <<>> /\ x[1] >= 5 THEN <<1>> ELSE <<>>)
    \o [i \in 1..Len(x) |->
          (2 * x[i] + (IF i < Len(x) /\ x[i + 1] >= 5 THEN 1 ELSE 0)) % 10])

\* d halved: the quotient and the bit that is shifted out
Halve(d) ==
  Bind(d, LAMBDA x :
    [q |-> Strip([i \in 1..Len(x) |->
                    ((IF i > 1 THEN 10 * (x[i - 1] % 2) ELSE 0) + x[i]) \div 2]),
     bits |-> <<IF x = <<>> THEN 0 ELSE x[Len(x)] % 2>>])

RECURSIVE HalveTimes(_, _)
\* d halved n times: the quotient and the bits shifted out, the lowest first
HalveTimes(d, n) ==
  IF n = 0 THEN [q |-> d, bits |-> <<>>]
  ELSE IF n = 1 THEN Halve(d)
  ELSE Bind(HalveTimes(d, n \div 2), LAMBDA a :
         [HalveTimes(a.q, n - n \div 2) EXCEPT !.bits = a.bits \o @])

RECURSIVE TwiceTimes(_, _)
\* d * 2^n
TwiceTimes(d, n) ==
  IF n = 0 THEN d
  ELSE IF n = 1 THEN Twice(d)
  ELSE Bind(TwiceTimes(d, n \div 2), LAMBDA x : TwiceTimes(x, n - n \div 2))

\* 16 * d + c, for a hexadecimal digit c
MulAdd16(d, c) ==
  Bind(Twice(Twice(Twice(Twice(d)))), LAMBDA x :
    IF c > 9 THEN AddDigit(AddDigit(x, 9), c - 9) ELSE AddDigit(x, c))

RECURSIVE HexValue(_, _)
\* the number d followed by the hexadecimal digits s (code units)
HexValue(d, s) ==
  IF Len(s) = 0 THEN d
  ELSE IF Len(s) = 1 THEN MulAdd16(d, DigitValue(s[1]))
  ELSE Bind(HexValue(d, SubSeq(s, 1, Len(s) \div 2)), LAMBDA x :
         HexValue(x, SubSeq(s, Len(s) \div 2 + 1, Len(s))))

\* 2^53: every natural number up to it is a double
TwoTo53 == DigitsOf("9007199254740992")

\* the bits of a double's significand
SignificandBits == 53

\* the largest doubles are (2^53 - 1) * 2^971, below 2^1024
MaxExponent == 1024 - SignificandBits

\* a number of more decimal digits than 309, or of more hexadecimal digits
\* than 256, is beyond the largest double
MaxDecimalDigits == 309

MaxHexDigits == 1024 \div 4

\* the largest number held in n
IntMax == DigitsOf("2147483647")

\* the place of the highest 1 of bits, the lowest bit being the first
BitLength(bits) ==
  CHOOSE i \in 1..Len(bits) : bits[i] = 1 /\ \A j \in (i + 1)..Len(bits) : bits[j] = 0

\* the double nearest to the natural number d, ties to the even
\* significand: [inf, d], inf when it is beyond the largest double
ToDouble(d) ==
  Bind(d, LAMBDA N :
    IF ~Less(TwoTo53, N) THEN [inf |-> FALSE, d |-> N]
    ELSE IF Len(N) > MaxDecimalDigits THEN [inf |-> TRUE, d |-> <<>>]
    ELSE Bind(HalveTimes(N, 4 * Len(N)).bits, LAMBDA bits :
           Bind(BitLength(bits) - SignificandBits, LAMBDA e :
             Bind(IF bits[e] = 1 /\ (bits[e + 1] = 1 \/ \E i \in 1..(e - 1) : bits[i] = 1)
                  THEN AddDigit(HalveTimes(N, e).q, 1) ELSE HalveTimes(N, e).q,
                  LAMBDA q :
               IF e > MaxExponent \/ (e = MaxExponent /\ q = TwoTo53)
               THEN [inf |-> TRUE, d |-> <<>>]
               ELSE [inf |-> FALSE, d |-> TwiceTimes(q, e)]))))

\* the number value of a sign and a magnitude [inf, d]
NumberOf(neg, m) ==
  IF m.inf THEN Infinity(neg)
  ELSE IF Less(IntMax, m.d)
  THEN Val("num", (IF neg THEN "-" ELSE "") \o TextOf(m.d), 0, <<>>, <<>>)
  ELSE Num(IF neg THEN 0 - IntOf(m.d) ELSE IntOf(m.d))

\* the largest array index, 2^32 - 2
MaxIndex == DigitsOf("4294967294")

\* an array index in its canonical form: the keys an object lists first,
\* in ascending order, before its other keys
IsIndexKey(key) ==
  /\ key # ""
  /\ SubSeq(key, 1, 1) \in DigitChars
  /\ Len(key) <= Len(MaxIndex)
  /\ \A i \in 1..Len(key) : SubSeq(key, i, i) \in DigitChars
  /\ (Len(key) = 1 \/ SubSeq(key, 1, 1) # "0")
  /\ ~Less(MaxIndex, DigitsOf(key))

\* the index of an index key, as digits
IndexOf(key) == IF key = "0" THEN <<>> ELSE DigitsOf(key)

HasKey(v, key) == SelectSeq(v.k, LAMBDA p : p.key = key) # <<>>

\* v[key], for a key that is a property name: the own property of an object
\* or an array, and undefined of every other value
GetP(v, key) == Head(SelectSeq(v.k, LAMBDA p : p.key = key) \o <<P(key, Undef)>>).val

\* where a new key goes in an object's property order
InsertAt(ps, key) ==
  IF IsIndexKey(key)
  THEN LET later == {i \in 1..Len(ps) :
                       ~IsIndexKey(ps[i].key) \/ Less(IndexOf(key), IndexOf(ps[i].key))}
       IN IF later = {} THEN Len(ps) + 1
          ELSE CHOOSE i \in later : \A j \in later : i <= j
  ELSE Len(ps) + 1

\* v[key] = x: an existing key keeps its place, a new one is added in
\* property order; on a number, string or boolean the assignment is dropped
SetP(v, key, x) ==
  Bind(v, LAMBDA o :
    IF o.t \notin {"arr", "obj"} THEN o
    ELSE IF HasKey(o, key)
    THEN [o EXCEPT !.k = [i \in 1..Len(o.k) |->
                            IF o.k[i].key = key THEN P(key, x) ELSE o.k[i]]]
    ELSE Bind(InsertAt(o.k, key), LAMBDA at :
           [o EXCEPT !.k = SubSeq(o.k, 1, at - 1) \o <<P(key, x)>>
                             \o SubSeq(o.k, at, Len(o.k))]))

----------------------------------------------------------------------------
(* The merge engine *)

\* a key deepMerge fills on the falsy values too
isAbsentFalsy(v) == ~Truthy(v)

\* target[key] === undefined
isAbsent(v) == v = Undef

\* source[key] && typeof source[key] === 'object' && !Array.isArray(source[key])
IsMapping(v) == Truthy(v) /\ TypeofObject(v) /\ ~IsArray(v)

\* lines 28-30 and 44-46: the value at the key is made an empty object
\* unless it is an object or an array
withObjectAt(target, key) ==
  IF ~Truthy(GetP(target, key)) \/ ~TypeofObject(GetP(target, key))
  THEN SetP(target, key, EmptyObj) ELSE target

RECURSIVE deepMergeFrom(_, _, _)
\* the loop of deepMerge from the i-th key of source on
deepMergeFrom(target, source, i) ==
  Bind(<<target, source, i>>, LAMBDA a :
    IF a[1].t = "throw" \/ a[3] > Len(a[2].k) THEN a[1]
    ELSE IF ~CanRead(a[1]) THEN Throw
    ELSE
      LET key == a[2].k[a[3]].key
          sv == a[2].k[a[3]].val
      IN IF IsMapping(sv)
         THEN Bind(withObjectAt(a[1], key), LAMBDA t1 :
                Bind(deepMergeFrom(GetP(t1, key), sv, 1), LAMBDA merged :
                  IF merged.t = "throw" THEN Throw
                  ELSE deepMergeFrom(SetP(t1, key, merged), a[2], a[3] + 1)))
         ELSE IF isAbsent(GetP(a[1], key))
         THEN deepMergeFrom(SetP(a[1], key, sv), a[2], a[3] + 1)
         ELSE deepMergeFrom(a[1], a[2], a[3] + 1))

deepMerge(target, source) == deepMergeFrom(target, source, 1)

RECURSIVE forceMergeFrom(_, _, _)
\* the loop of forceMerge from the i-th key of source on
forceMergeFrom(target, source, i) ==
  Bind(<<target, source, i>>, LAMBDA a :
    IF a[1].t = "throw" \/ a[3] > Len(a[2].k) THEN a[1]
    ELSE IF ~CanRead(a[1]) THEN Throw
    ELSE
      LET key == a[2].k[a[3]].key
          sv == a[2].k[a[3]].val
      IN IF IsMapping(sv)
         THEN Bind(withObjectAt(a[1], key), LAMBDA t1 :
                Bind(forceMergeFrom(GetP(t1, key), sv, 1), LAMBDA merged :
                  IF merged.t = "throw" THEN Throw
                  ELSE forceMergeFrom(SetP(t1, key, merged), a[2], a[3] + 1)))
         ELSE forceMergeFrom(SetP(a[1], key, sv), a[2], a[3] + 1))

forceMerge(target, source) == forceMergeFrom(target, source, 1)

gatewayDefaults ==
  Obj(<<P("gateway", Obj(<<
    P("mode", Str("local")),
    P("bind", Str("lan")),
    P("controlUi", Obj(<<P("allowInsecureAuth", Bool(TRUE))>>)),
    P("auth", Obj(<<P("mode", Str("token"))>>))>>))>>)

agentDefaults ==
  Obj(<<P("agents", Obj(<<P("defaults", Obj(<<P("tools", Obj(<<
    P("profile", Str("standard")),
    P("allow", Arr(<<Str("read"), Str("write"), Str("edit"), Str("exec"),
                     Str("web"), Str("browser")>>)),
    P("exec", Obj(<<
      P("host", Str("gateway")),
      P("ask", Str("off")),
      P("security", Str("standard"))>>))>>))>>))>>))>>)

----------------------------------------------------------------------------
(* The environment *)

\* an environment variable that is not set
Unset == Undef

\* the letters and digits, each run in the order of its code units
Digits == "0123456789"
Upper == "ABCDEFGHIJKLMNOPQRSTUVWXYZ"
Lower == "abcdefghijklmnopqrstuvwxyz"

\* the place of the character c in the run
PlaceIn(run, c) == CHOOSE i \in 1..Len(run) : SubSeq(run, i, i) = c

\* the other characters whose code units are listed
Marks == {"\t", "\n", "\f", "\r", " ", "+", "-", ".", "/", "_"}

\* the UTF-16 code unit of a character: a letter, a digit or a mark
CodeUnit(c) ==
  CASE c = "\t" -> 9
    [] c = "\n" -> 10
    [] c = "\f" -> 12
    [] c = "\r" -> 13
    [] c = " " -> 32
    [] c = "+" -> 43
    [] c = "-" -> 45
    [] c = "." -> 46
    [] c = "/" -> 47
    [] c = "_" -> 95
    [] \E i \in 1..Len(Digits) : SubSeq(Digits, i, i) = c -> 47 + PlaceIn(Digits, c)
    [] \E i \in 1..Len(Upper) : SubSeq(Upper, i, i) = c -> 64 + PlaceIn(Upper, c)
    [] \E i \in 1..Len(Lower) : SubSeq(Lower, i, i) = c -> 96 + PlaceIn(Lower, c)

\* the code units of a string
CodeUnits(s) == [i \in 1..Len(s) |-> CodeUnit(SubSeq(s, i, i))]

\* the code units of a string value
CodeUnitsOf(x) == IF x.s # "" THEN CodeUnits(x.s) ELSE x.e

\* the characters that have a code unit above
KnownChars ==
  Marks \cup UNION { { SubSeq(run, i, i) : i \in 1..Len(run) } : run \in {Digits, Upper, Lower} }

KnownUnits == { CodeUnit(c) : c \in KnownChars }

RECURSIVE CharsOf(_)
\* the string of the characters of the given code units
CharsOf(units) ==
  IF Len(units) = 0 THEN ""
  ELSE IF Len(units) = 1 THEN CHOOSE c \in KnownChars : CodeUnit(c) = units[1]
  ELSE CharsOf(SubSeq(units, 1, Len(units) \div 2))
       \o CharsOf(SubSeq(units, Len(units) \div 2 + 1, Len(units)))

\* the string value of the given code units
StringOf(units) ==
  IF \A i \in 1..Len(units) : units[i] \in KnownUnits
  THEN Str(CharsOf(units)) ELSE Text(units)

\* a + b of two strings
Concat(a, b) ==
  IF a.e = <<>> /\ b.e = <<>> THEN Str(a.s \o b.s)
  ELSE StringOf(CodeUnitsOf(a) \o CodeUnitsOf(b))

\* the white space and line terminators parseInt skips (StrWhiteSpaceChar):
\* tab, line feed, vertical tab, form feed, carriage return, space,
\* no-break space, U+1680, U+2000 to U+200A, U+2028, U+2029, U+202F, U+205F,
\* U+3000 and the byte order mark
WhiteSpace ==
  (9..13) \cup {32, 160, 5760} \cup (8192..8202)
  \cup {8232, 8233, 8239, 8287, 12288, 65279}

\* the length of the longest prefix of s whose code units are in cs
PrefixLen(s, cs) ==
  IF \A i \in 1..Len(s) : s[i] \in cs THEN Len(s)
  ELSE (CHOOSE i \in 1..Len(s) : s[i] \notin cs /\ \A j \in 1..(i - 1) : s[j] \in cs) - 1

SkipWhiteSpace(s) == SubSeq(s, PrefixLen(s, WhiteSpace) + 1, Len(s))

\* the longest prefix of s that is digits of the radix: [any, v],
\* any = FALSE when there is no digit at all, v the magnitude [inf, d] of
\* the number the digits write
ParseDigits(s, radix) ==
  Bind(SubSeq(s, 1, PrefixLen(s, { CodeUnit(c) : c \in DigitsOfRadix(radix) })), LAMBDA p :
    Bind(SubSeq(p, PrefixLen(p, {CodeUnit("0")}) + 1, Len(p)), LAMBDA sig :
      [any |-> Len(p) > 0,
       v |-> IF Len(sig) > (IF radix = 16 THEN MaxHexDigits ELSE MaxDecimalDigits)
             THEN [inf |-> TRUE, d |-> <<>>]
             ELSE ToDouble(IF radix = 16 THEN HexValue(<<>>, sig)
                           ELSE [i \in 1..Len(sig) |-> DigitValue(sig[i])])]))

\* parseInt(x) with no radix. An unset variable is parsed as the text
\* "undefined".
parseInt(x) ==
  Bind(SkipWhiteSpace(IF x.t = "str" THEN CodeUnitsOf(x) ELSE CodeUnits("undefined")),
       LAMBDA s0 :
    LET neg == Len(s0) > 0 /\ s0[1] = CodeUnit("-")
        s1 == IF Len(s0) > 0 /\ s0[1] \in {CodeUnit("-"), CodeUnit("+")}
              THEN SubSeq(s0, 2, Len(s0)) ELSE s0
        hex == Len(s1) >= 2 /\ SubSeq(s1, 1, 2) \in {CodeUnits("0x"), CodeUnits("0X")}
        s2 == IF hex THEN SubSeq(s1, 3, Len(s1)) ELSE s1
    IN Bind(ParseDigits(s2, IF hex THEN 16 ELSE 10), LAMBDA d :
         IF ~d.any THEN NaN ELSE NumberOf(neg, d.v)))

DefaultContextWindow == 32768

MaxTokensCap == 8192

\* parseInt(process.env.OLLAMA_CONTEXT_WINDOW) || 32768
contextWindowOf(x) ==
  Bind(parseInt(x), LAMBDA r : IF Truthy(r) THEN r ELSE Num(DefaultContextWindow))

Min(a, b) == IF a <= b THEN a ELSE b

\* whether a number is below zero
IsNegative(v) == IF v.s = "" THEN v.n < 0 ELSE SubSeq(v.s, 1, 1) = "-"

\* Math.floor(v / 4) of a number that is held as text and is no infinity
FloorQuarter(v) ==
  Bind(Halve(DigitsOf(IF IsNegative(v) THEN SubSeq(v.s, 2, Len(v.s)) ELSE v.s)),
       LAMBDA h1 :
    Bind(Halve(h1.q), LAMBDA h2 :
      NumberOf(IsNegative(v),
               [inf |-> FALSE,
                d |-> IF IsNegative(v) /\ h1.bits[1] + h2.bits[1] > 0
                      THEN AddDigit(h2.q, 1) ELSE h2.q])))

\* Math.min(8192, Math.floor(contextWindow / 4))
maxTokensOf(cw) ==
  CASE cw.s = "" -> Num(Min(MaxTokensCap, cw.n \div 4))
    [] cw.s \in {"Infinity", "-Infinity"} ->
         IF IsNegative(cw) THEN cw ELSE Num(MaxTokensCap)
    [] OTHER ->
         Bind(FloorQuarter(cw), LAMBDA q :
           IF IsNegative(q) THEN q ELSE Num(MaxTokensCap))

\* the entry appended to the provider's models
newModelEntry(modelId, cw) ==
  Obj(<<
    P("id", modelId),
    P("name", Concat(Str("Ollama - "), modelId)),
    P("reasoning", Bool(FALSE)),
    P("input", Arr(<<Str("text")>>)),
    P("cost", Obj(<<P("input", Num(0)), P("output", Num(0))>>)),
    P("contextWindow", cw),
    P("maxTokens", maxTokensOf(cw))>>)

----------------------------------------------------------------------------
(* Provisioning *)

IndexKeyOf(i) == ToString(i)

\* the own enumerable properties {...v} copies: an object's properties, an
\* array's elements under their indices and then its properties, a string's
\* characters under their indices, nothing of a number or a boolean
OwnProps(v) ==
  CASE v.t = "obj" -> v.k
    [] v.t = "arr" -> [i \in 1..Len(v.e) |-> P(IndexKeyOf(i - 1), v.e[i])] \o v.k
    [] v.t = "str" /\ v.s # "" ->
         [i \in 1..Len(v.s) |-> P(IndexKeyOf(i - 1), Str(SubSeq(v.s, i, i)))]
    [] v.t = "str" -> [i \in 1..Len(v.e) |-> P(IndexKeyOf(i - 1), StringOf(<<v.e[i]>>))]
    [] OTHER -> <<>>

RECURSIVE DefineAll(_, _, _)
\* an object literal defines its properties one after the other
DefineAll(o, ps, i) ==
  Bind(<<o, ps, i>>, LAMBDA a :
    IF a[3] > Len(a[2]) THEN a[1]
    ELSE DefineAll(SetP(a[1], a[2][a[3]].key, a[2][a[3]].val), a[2], a[3] + 1))

\* { baseUrl, apiKey, api, authHeader, ...(existing || {}) }
ollamaEntry(url, key, existing) ==
  DefineAll(
    Obj(<<P("baseUrl", url),
          P("apiKey", key),
          P("api", Str("openai-completions")),
          P("authHeader", Bool(FALSE))>>),
    OwnProps(IF Truthy(existing) THEN existing ELSE EmptyObj), 1)

\* an entry looked up by its name
idMatchesName(m, id) == GetP(m, "name") = id

\* m.id === ollamaModel
idMatches(m, id) == GetP(m, "id") = id

RECURSIVE someHasId(_, _, _)
\* existingModels.some(m => m.id === id) from the i-th element on:
\* "yes", "no", or "throw" when m.id is read of a null element first
someHasId(es, id, i) ==
  IF i > Len(es) THEN "no"
  ELSE IF ~CanRead(es[i]) THEN "throw"
  ELSE IF idMatches(es[i], id) THEN "yes"
  ELSE someHasId(es, id, i + 1)

\* config.models.providers.ollama.models || []
existingModelsOf(ollama) ==
  IF Truthy(GetP(ollama, "models")) THEN GetP(ollama, "models") ELSE EmptyArr

\* the model definition added without looking for its id
addModelAlways(ollama, modelId, cw) ==
  Bind(<<ollama, modelId, cw>>, LAMBDA a :
    IF ~CanRead(a[1]) THEN Throw
    ELSE Bind(existingModelsOf(a[1]), LAMBDA existingModels :
           IF ~IsArray(existingModels) THEN Throw
           ELSE SetP(a[1], "models",
                     Arr(existingModels.e \o <<newModelEntry(a[2], a[3])>>))))

\* lines 145-163: the model definition is added unless its id is there
addModel(ollama, modelId, cw) ==
  Bind(<<ollama, modelId, cw>>, LAMBDA a :
    IF ~CanRead(a[1]) THEN Throw
    ELSE Bind(existingModelsOf(a[1]), LAMBDA existingModels :
           Bind(IF IsArray(existingModels)
                THEN someHasId(existingModels.e, a[2], 1) ELSE "throw",
                LAMBDA modelExists :
             CASE modelExists = "throw" -> Throw
               [] modelExists = "yes" -> a[1]
               [] OTHER -> SetP(a[1], "models",
                                Arr(existingModels.e \o <<newModelEntry(a[2], a[3])>>)))))

\* config.agents.defaults.model?.primary
currentModelOf(defaults) ==
  IF GetP(defaults, "model").t \in {"undef", "null"} THEN Undef
  ELSE GetP(GetP(defaults, "model"), "primary")

\* lines 166-167 and 132-133: if (!o[key]) o[key] = {}
ensure(o, key) ==
  IF ~Truthy(GetP(o, key)) THEN SetP(o, key, EmptyObj) ELSE o

\* lines 165-181: the default model is set from the environment
setDefaultModel(config, modelId) ==
  Bind(ensure(config, "agents"), LAMBDA c1 :
    Bind(GetP(c1, "agents"), LAMBDA agents :
      IF ~CanRead(agents) THEN Throw
      ELSE
        Bind(ensure(agents, "defaults"), LAMBDA a1 :
          Bind(GetP(a1, "defaults"), LAMBDA defaults :
            IF ~CanRead(defaults) THEN Throw
            ELSE
              LET newModel == Concat(Str("ollama/"), modelId)
                  d1 == IF currentModelOf(defaults) # newModel
                        THEN SetP(defaults, "model", Obj(<<P("primary", newModel)>>))
                        ELSE defaults
              IN SetP(c1, "agents", SetP(a1, "defaults", d1))))))

\* the environment of a run
Env(url, key, model, ctx) == [url |-> url, key |-> key, model |-> model, ctx |-> ctx]

\* provisioning entered with one of the two set
ProvisionedEither(env) == Truthy(env.url) \/ Truthy(env.key)

\* ollamaUrl && ollamaKey
Provisioned(env) == Truthy(env.url) /\ Truthy(env.key)

\* lines 144-182, on the configuration whose provider entry is set
provisionModel(c1, m1, p1, env) ==
  IF ~Truthy(env.model)
  THEN SetP(c1, "models", SetP(m1, "providers", p1))
  ELSE Bind(addModel(GetP(p1, "ollama"), env.model, contextWindowOf(env.ctx)),
            LAMBDA o2 :
         IF o2.t = "throw" THEN Throw
         ELSE setDefaultModel(
                SetP(c1, "models", SetP(m1, "providers", SetP(p1, "ollama", o2))),
                env.model))

\* lines 119-192
provision(config, env) ==
  IF ~Provisioned(env) THEN config
  ELSE
    Bind(ensure(config, "models"), LAMBDA c1 :
      Bind(GetP(c1, "models"), LAMBDA models :
        IF ~CanRead(models) THEN Throw
        ELSE
          Bind(ensure(models, "providers"), LAMBDA m1 :
            Bind(GetP(m1, "providers"), LAMBDA providers :
              IF ~CanRead(providers) THEN Throw
              ELSE
                Bind(SetP(providers, "ollama",
                          ollamaEntry(env.url, env.key, GetP(providers, "ollama"))),
                     LAMBDA p1 : provisionModel(c1, m1, p1, env))))))

----------------------------------------------------------------------------
(* The configuration store *)

RECURSIVE stringify(_)
\* the document JSON.stringify(v) writes: an array loses the properties
\* set on the array object, an undefined property is not written, an
\* undefined element is written as null and so are NaN and the infinities
stringify(v) ==
  Bind(v, LAMBDA x :
    CASE x.t = "obj" ->
           Bind(SelectSeq(x.k, LAMBDA p : p.val.t # "undef"), LAMBDA ps :
             Obj([i \in 1..Len(ps) |-> P(ps[i].key, stringify(ps[i].val))]))
      [] x.t = "arr" ->
           Arr([i \in 1..Len(x.e) |->
                  IF x.e[i].t = "undef" THEN Null ELSE stringify(x.e[i])])
      [] x.t = "num" /\ x.s \in {"NaN", "Infinity", "-Infinity"} -> Null
      [] OTHER -> x)

\* the file openclaw.json: absent, empty, holding a text that does not
\* parse, or holding a document
Absent == [kind |-> "absent", doc |-> Undef]
Empty == [kind |-> "empty", doc |-> Undef]
Malformed == [kind |-> "malformed", doc |-> Undef]
Json(doc) == [kind |-> "json", doc |-> doc]

RECURSIVE parse(_)
\* JSON.parse of the document a file holds: the keys of an object are
\* defined one after the other, so its index keys come first, ascending,
\* and a key written twice keeps its first place and its last value (keys
\* that are no index keys and are written once stay as written); a number
\* is the double nearest to the number written
parse(v) ==
  Bind(v, LAMBDA x :
    CASE x.t = "obj" ->
           Bind([i \in 1..Len(x.k) |-> P(x.k[i].key, parse(x.k[i].val))], LAMBDA ps :
             IF \A i \in 1..Len(ps) :
                  /\ ~IsIndexKey(ps[i].key)
                  /\ \A j \in 1..(i - 1) : ps[j].key # ps[i].key
             THEN Obj(ps) ELSE DefineAll(EmptyObj, ps, 1))
      [] x.t = "arr" -> Arr([i \in 1..Len(x.e) |-> parse(x.e[i])])
      [] x.t = "num" /\ x.s \notin {"", "NaN", "Infinity", "-Infinity"} ->
           NumberOf(IsNegative(x),
                    ToDouble(Strip(DigitsOf(IF IsNegative(x)
                                            THEN SubSeq(x.s, 2, Len(x.s)) ELSE x.s))))
      [] OTHER -> x)

\* lines 65-78: the configuration main starts from. A file that cannot be
\* read or parsed (an empty file does not parse) gives the empty
\* configuration.
loadConfig(f, fault) ==
  IF f.kind = "json" /\ fault # "read" THEN parse(f.doc) ELSE EmptyObj

\* lines 80-192: the configuration main builds, or Throw
buildConfig(loaded, env) ==
  Bind(forceMerge(loaded, gatewayDefaults), LAMBDA c1 :
    Bind(deepMerge(c1, agentDefaults), LAMBDA c2 : provision(c2, env)))

\* a catch that reports the failure to the caller
exitCodeFailing(threw) == IF threw THEN 1 ELSE 0

\* the exit code of the process: main returned, or the catch at line 220
exitCode(threw) == IF threw THEN 0 ELSE 0

\* the files a writeFileSync that fails can leave where f was: f when the
\* open fails; the file created or emptied when the open (flag 'w') succeeds
\* and nothing is written; the beginning of the text, which does not parse
\* (the text is that of an object or an array), when writing stops part way
failedWrite(f) == { f, Empty, Malformed }

\* one run of the script on file f: the files it can leave and how it ends.
\* fault names the file system call that fails in this run, if any; the
\* write is reached only when nothing before it throws.
main(f, env, fault) ==
  Bind(buildConfig(loadConfig(f, fault), env), LAMBDA config :
    LET threw == fault = "mkdir" \/ config.t = "throw" \/ fault = "write"
        left == IF fault = "mkdir" \/ config.t = "throw" THEN {f}
                ELSE IF fault = "write" THEN failedWrite(f)
                ELSE {Json(stringify(config))}
    IN { [file |-> g,
          outcome |-> IF threw THEN "threw" ELSE "saved",
          exit |-> exitCode(threw)] : g \in left })

\* mkdirSync is called when the directory is missing, readFileSync when the
\* file exists
FaultPossible(f, fault) ==
  CASE fault = "mkdir" -> f.kind = "absent"
    [] fault = "read" -> f.kind # "absent"
    [] OTHER -> TRUE

----------------------------------------------------------------------------
(* Reading a document *)

RECURSIVE At(_, _)
\* the value at a path of keys, Undef when the path leaves the document
At(v, path) ==
  IF path = <<>> THEN v ELSE At(GetP(v, Head(path)), Tail(path))

DocOf(f) == IF f.kind = "json" THEN f.doc ELSE Undef

OllamaPath == <<"models", "providers", "ollama">>

ModelPath == <<"agents", "defaults", "model">>

\* the elements of models.providers.ollama.models
ModelsOf(doc) ==
  LET m == At(doc, OllamaPath \o <<"models">>)
  IN IF IsArray(m) THEN m.e ELSE <<>>

\* no two entries of the sequence have the same id
DistinctIds(es) ==
  \A i, j \in 1..Len(es) :
    (i # j /\ GetP(es[i], "id") # Undef) => GetP(es[i], "id") # GetP(es[j], "id")

----------------------------------------------------------------------------
(* The documents and environments the runs are checked on *)

\* an object of the given properties, those whose value is Undef left out
ObjOf(ps) == Obj(SelectSeq(ps, LAMBDA p : p.val # Undef))

ModelEntryOf(id) == newModelEntry(Str(id), Num(DefaultContextWindow))

GatewayVals ==
  { Null, Str("off"), Arr(<<Str("x")>>),
    Obj(<<P("port", Num(18789)), P("mode", Str("remote")),
          P("auth", Obj(<<P("mode", Str("password")), P("token", Str("t"))>>))>>),
    Obj(<<P("mode", Null), P("bind", Arr(<<>>)), P("controlUi", Arr(<<Num(1)>>)),
          P("auth", Str("none"))>>) }

ToolsVals ==
  { Str("none"), Arr(<<Str("read")>>),
    Obj(<<P("allow", Arr(<<Str("read")>>))>>),
    Obj(<<P("exec", Obj(<<P("ask", Num(0)), P("host", Str(""))>>)),
          P("allow", Bool(FALSE)), P("profile", Null), P("deny", Arr(<<>>))>>) }

ModelVals ==
  { Null, Str("ollama/ma"),
    Obj(<<P("primary", Str("ollama/ma"))>>),
    Obj(<<P("primary", Str("openai/gpt"))>>),
    Obj(<<P("fallbacks", Arr(<<Str("openai/gpt")>>)), P("primary", Str("ollama/ma"))>>) }

DefaultsOf(m, t) == ObjOf(<<P("defaults", ObjOf(<<P("model", m), P("tools", t)>>))>>)

AgentsVals ==
  { Num(0), Arr(<<>>), Obj(<<P("defaults", Arr(<<>>))>>),
    Obj(<<P("list", Arr(<<>>)), P("defaults", Null)>>) }
  \cup { DefaultsOf(m, Obj(<<P("allow", Arr(<<Str("read")>>))>>)) : m \in ModelVals }
  \cup { DefaultsOf(Undef, t) : t \in ToolsVals }

OllamaVals ==
  { Null, Str("ab"), Num(7), Arr(<<Str("x"), Null>>),
    Obj(<<P("api", Str("openai-responses"))>>),
    Obj(<<P("timeout", Num(30)), P("authHeader", Bool(TRUE)),
          P("apiKey", Str("old")), P("baseUrl", Str("http://old/v1"))>>),
    Obj(<<P("models", Arr(<<ModelEntryOf("ma")>>)), P("1000000000", Num(1)),
          P("0", Num(0))>>),
    Obj(<<P("models", Arr(<<Obj(<<P("id", Num(5))>>), Str("mb"), Arr(<<>>),
                            ModelEntryOf("mb")>>))>>),
    Obj(<<P("models", Arr(<<ModelEntryOf("ma"), Null>>))>>),
    Obj(<<P("models", Arr(<<ModelEntryOf("ma"), ModelEntryOf("ma")>>))>>),
    Obj(<<P("models", Str("ma"))>>),
    Obj(<<P("models", Obj(<<P("ma", ModelEntryOf("ma"))>>))>>) }

ProvidersOf(o) ==
  Obj(<<P("providers", ObjOf(<<P("openai", Obj(<<P("api", Str("openai-responses"))>>)),
                               P("ollama", o)>>))>>)

ModelsVals ==
  { Str("x"), Bool(TRUE), Arr(<<>>),
    Obj(<<P("mode", Str("merge")), P("providers", Null)>>),
    Obj(<<P("providers", Num(5))>>),
    Obj(<<P("providers", Str("none"))>>),
    Obj(<<P("providers", Arr(<<>>))>>) }
  \cup { ProvidersOf(o) : o \in OllamaVals \cup {Undef} }

\* a document in the property order JSON.parse gives it
DocOf3(g, a, m) ==
  ObjOf(<<P("gateway", g), P("agents", a), P("models", m), P("theme", Str("dark"))>>)

\* the files of Spec: no file, a file that does not parse, a JSON value
\* that is no mapping, and mappings that differ from the plain one at the
\* gateway, at the agents or at the models
InitFiles ==
  { Absent, Malformed, Json(Null), Json(Num(1)), Json(Str("x")), Json(Bool(FALSE)),
    Json(Arr(<<Obj(<<P("gateway", Null)>>)>>)), Json(EmptyObj),
    Json(Obj(<<P("models", Null), P("agents", Null), P("gateway", Null)>>)) }
  \cup { Json(DocOf3(g, Undef, Undef)) : g \in GatewayVals }
  \cup { Json(DocOf3(Undef, a, Undef)) : a \in AgentsVals }
  \cup { Json(DocOf3(Undef, Undef, m)) : m \in ModelsVals }
  \cup { Json(DocOf3(Undef, DefaultsOf(m, Undef), ProvidersOf(o))) :
           m \in { Obj(<<P("primary", Str("openai/gpt"))>>),
                   Obj(<<P("fallbacks", Arr(<<Str("openai/gpt")>>)),
                         P("primary", Str("ollama/ma"))>>) },
           o \in { Obj(<<P("api", Str("openai-responses"))>>),
                   Obj(<<P("models", Arr(<<ModelEntryOf("ma")>>)), P("1000000000", Num(1)),
                         P("0", Num(0))>>) } }

NoEnv == Env(Unset, Unset, Unset, Unset)

Url1 == Str("http://172.17.0.1:11434/v1")

Key1 == Str("ollama-local")

In(env, fault) == [env |-> env, fault |-> fault]

\* the runs of Spec: both variables set, with each model id; one or both
\* missing or empty; the context window unset and no file system fault
MainInputs ==
  { In(Env(Url1, Key1, m, Unset), "none") : m \in {Unset, Str(""), Str("ma"), Str("mb")} }
  \cup { In(Env(u, k, m, Unset), "none") :
           u \in {Unset, Str("")}, k \in {Unset}, m \in {Unset, Str("ma")} }
  \cup { In(Env(Url1, Unset, Str("ma"), Unset), "none"),
         In(Env(Url1, Str(""), Str("mb"), Unset), "none"),
         In(Env(Unset, Key1, Str("ma"), Unset), "none") }

\* the values of OLLAMA_CONTEXT_WINDOW
CtxVals ==
  { Unset, Str(""), Str("abc"), Str("0"), Str("-5"), Str("4096"), Str("40000") }

\* values after white space: a space, a form feed, an em space (U+2003), and
\* a no-break space, a line separator and a byte order mark in a row
SpaceCtxVals ==
  { Str(" 12px"), Str("\f4096"), Text(<<8195>> \o CodeUnits("4096")),
    Text(<<160, 8232, 65279>> \o CodeUnits("12px")) }

\* values beyond 2^31 and beyond 2^53
LargeCtxVals ==
  { Str("2147483648"), Str("-99999999999"), Str("9007199254740993"),
    Str("0x20000000000003") }

\* a model id with a letter no string here can hold: "m" and U+00E9
ModelE == Text(CodeUnits("m") \o <<233>>)

CtxInputs ==
  { In(Env(Url1, Key1, Str("ma"), c), "none") : c \in CtxVals \cup SpaceCtxVals \cup LargeCtxVals }
  \cup { In(Env(Url1, Key1, ModelE, c), "none") : c \in {Unset, Str("-5")} }

CtxFiles ==
  { Absent, Json(DocOf3(Undef, Undef, ProvidersOf(Obj(<<P("models", Arr(<<ModelEntryOf("ma")>>))>>)))) }

Faults == { "none", "mkdir", "read", "write" }

FaultInputs ==
  { In(e, ft) : e \in { NoEnv, Env(Url1, Key1, Str("ma"), Unset),
                        Env(Url1, Key1, Unset, Str("abc")) },
                ft \in Faults }

FaultFiles ==
  { Absent, Empty, Malformed, Json(Null), Json(Str("x")), Json(Arr(<<>>)), Json(EmptyObj),
    Json(DocOf3(Undef, Undef, Str("x"))),
    Json(DocOf3(Undef, Undef, ProvidersOf(Obj(<<P("models", Str("ma"))>>)))),
    Json(DocOf3(Undef, Undef, ProvidersOf(Obj(<<P("models", Arr(<<Null>>))>>)))),
    Json(DocOf3(Str("off"), Num(0), Obj(<<P("providers", Num(5))>>))) }

\* the trees the merges are applied to and the trees merged into them
MergeTargets ==
  { EmptyObj, Null, Num(1), Str("x"), Arr(<<>>),
    Obj(<<P("a", Null), P("b", Bool(FALSE)), P("c", Num(0)), P("d", Str("")),
          P("e", Arr(<<Num(1)>>)), P("m", Obj(<<P("x", Num(0)), P("z", Num(3))>>))>>),
    Obj(<<P("m", Arr(<<Num(1)>>)), P("a", Obj(<<P("x", Num(1))>>))>>),
    Obj(<<P("m", Str("s")), P("e", Obj(<<>>))>>) }
  \cup { DocOf3(g, Undef, Undef) : g \in GatewayVals }
  \cup { DocOf3(Undef, a, Undef) : a \in AgentsVals }

MergeSources ==
  { gatewayDefaults, agentDefaults,
    Obj(<<P("a", Num(7)), P("b", Str("s")), P("c", Bool(TRUE)), P("d", Null),
          P("e", Arr(<<Num(2)>>)),
          P("m", Obj(<<P("x", Num(9)), P("y", Arr(<<>>))>>))>>) }

----------------------------------------------------------------------------
(* The state machine: the file, and what the last run was and did *)

Last0(f) ==
  [ran |-> FALSE, env |-> NoEnv, fault |-> "none", before |-> f,
   outcome |-> "none", exit |-> -1, repeat |-> FALSE,
   distinct0 |-> DistinctIds(ModelsOf(DocOf(f)))]

NoMerge == [op |-> "none", target |-> Undef, source |-> Undef, result |-> Undef]

\* one run of the script, on an input of the given set
Run(inputs) ==
  \E i \in inputs :
    /\ FaultPossible(file, i.fault)
    /\ \E r \in main(file, i.env, i.fault) :
          /\ file' = r.file
          /\ last' = [ran |-> TRUE, env |-> i.env, fault |-> i.fault,
                      before |-> file, outcome |-> r.outcome, exit |-> r.exit,
                      repeat |-> last.ran /\ last.env = i.env
                                 /\ last.fault = "none" /\ i.fault = "none",
                      distinct0 |-> last.distinct0]
    /\ UNCHANGED mt

Init ==
  /\ file \in InitFiles
  /\ last = Last0(file)
  /\ mt = NoMerge

Next == Run(MainInputs)

Spec == Init /\ [][Next]_vars

\* the runs that append model entries, with each context window value
InitCtx ==
  /\ file \in CtxFiles
  /\ last = Last0(file)
  /\ mt = NoMerge

NextCtx == Run(CtxInputs)

SpecCtx == InitCtx /\ [][NextCtx]_vars

\* the runs in which a file system call fails
InitFault ==
  /\ file \in FaultFiles
  /\ last = Last0(file)
  /\ mt = NoMerge

NextFault == Run(FaultInputs)

SpecFault == InitFault /\ [][NextFault]_vars

\* the merges, applied to a target and a source
ApplyDeepMerge ==
  /\ mt.op = "none"
  /\ mt' = [mt EXCEPT !.op = "deep", !.result = deepMerge(mt.target, mt.source)]
  /\ UNCHANGED <<file, last>>

ApplyForceMerge ==
  /\ mt.op = "none"
  /\ mt' = [mt EXCEPT !.op = "force", !.result = forceMerge(mt.target, mt.source)]
  /\ UNCHANGED <<file, last>>

InitMerge ==
  /\ file = Absent
  /\ last = Last0(Absent)
  /\ mt \in { [op |-> "none", target |-> t, source |-> s, result |-> Undef] :
                t \in MergeTargets, s \in MergeSources }

NextMerge == ApplyDeepMerge \/ ApplyForceMerge

SpecMerge == InitMerge /\ [][NextMerge]_vars

----------------------------------------------------------------------------
(* Properties *)

IsPrefix(p, q) == Len(p) <= Len(q) /\ SubSeq(q, 1, Len(p)) = p

RECURSIVE KeyPaths(_)
\* the paths of all the keys of a document, nested ones included
KeyPaths(v) ==
  IF v.t # "obj" THEN {}
  ELSE UNION { {<<v.k[i].key>>} \cup { <<v.k[i].key>> \o q : q \in KeyPaths(v.k[i].val) } :
               i \in 1..Len(v.k) }

RECURSIVE LeafPaths(_)
\* the paths at which a merge source holds a scalar or a sequence
LeafPaths(v) ==
  UNION { IF v.k[i].val.t = "obj"
          THEN { <<v.k[i].key>> \o q : q \in LeafPaths(v.k[i].val) }
          ELSE { <<v.k[i].key>> } : i \in 1..Len(v.k) }

\* the paths a run assigns
AssignedPaths ==
  LeafPaths(gatewayDefaults) \cup LeafPaths(agentDefaults)
  \cup { OllamaPath \o <<f>> : f \in {"baseUrl", "apiKey", "api", "authHeader", "models"} }
  \cup { ModelPath \o <<"primary">> }

\* a path that neither leads to an assigned path nor lies below one
Unassigned(p) == \A q \in AssignedPaths : ~IsPrefix(p, q) /\ ~IsPrefix(q, p)

UrlAndKeySet(env) == env.url \notin Falsy /\ env.key \notin Falsy

ModelSet(env) == env.model \notin Falsy

Saved == last.ran /\ last.outcome = "saved"

\* the document the last run loaded, Undef when the file held none
Before == IF last.before.kind = "json" THEN parse(last.before.doc) ELSE Undef

After == DocOf(file)

\* C1: after a run that provisions the provider, on a document that already
\* holds an ollama entry, the saved entry has api = "openai-completions",
\* baseUrl and apiKey as supplied and authHeader = false, whatever the
\* entry held for them.
C1_RequiredFieldsReasserted ==
  (Saved /\ UrlAndKeySet(last.env) /\ At(Before, OllamaPath).t = "obj") =>
    /\ At(After, OllamaPath \o <<"api">>) = Str("openai-completions")
    /\ At(After, OllamaPath \o <<"baseUrl">>) = last.env.url
    /\ At(After, OllamaPath \o <<"apiKey">>) = last.env.key
    /\ At(After, OllamaPath \o <<"authHeader">>) = Bool(FALSE)

\* C2: a run with the environment of the run before it leaves the file as
\* that run left it, keys, key order and values.
C2_Idempotent == last.repeat => file = last.before

\* a second run with the same environment that provisions a model, on a
\* file that holds several models
C2_Witness ==
  /\ last.repeat /\ Saved
  /\ UrlAndKeySet(last.env) /\ ModelSet(last.env)
  /\ Len(ModelsOf(After)) >= 2
  /\ file = last.before

\* C3: deepMerge leaves the value at every path where the source holds a
\* scalar or a sequence and the target holds a value, null, false, 0, ""
\* and sequences included, and fills the paths the target does not hold.
C3_PreserveMergeKeepsPresent ==
  mt.op = "deep" =>
    \A p \in LeafPaths(mt.source) :
      /\ At(mt.target, p) # Undef => At(mt.result, p) = At(mt.target, p)
      /\ (At(mt.target, p) = Undef /\ mt.result.t # "throw") =>
           At(mt.result, p) = At(mt.source, p)

ToolsPath == <<"agents", "defaults", "tools">>

\* the agent defaults merged into a document whose tools.allow is ["read"]
C3_Witness ==
  /\ mt.op = "deep" /\ mt.source = agentDefaults
  /\ At(mt.target, ToolsPath \o <<"allow">>) = Arr(<<Str("read")>>)
  /\ At(mt.result, ToolsPath \o <<"allow">>) = Arr(<<Str("read")>>)
  /\ At(mt.target, ToolsPath \o <<"profile">>) = Undef
  /\ At(mt.result, ToolsPath \o <<"profile">>) = Str("standard")

\* C4: when the ids of the models of the first document are pairwise
\* distinct, they are so after every sequence of runs.
C4_NoDuplicateIds == last.distinct0 => DistinctIds(ModelsOf(After))

\* a second run with the same model id, after which one entry has that id
C4_Witness ==
  /\ last.distinct0 /\ last.repeat /\ Saved
  /\ UrlAndKeySet(last.env) /\ ModelSet(last.env)
  /\ Len(ModelsOf(After)) >= 2
  /\ Cardinality({ i \in 1..Len(ModelsOf(After)) :
                     GetP(ModelsOf(After)[i], "id") = last.env.model }) = 1

\* C5: after a run that provisions with a model id, the saved
\* agents.defaults.model.primary is "ollama/" and the id; after a run with
\* no model id, agents.defaults.model is what the loaded document held.
C5_EnvModelIsDefault ==
  /\ (Saved /\ UrlAndKeySet(last.env) /\ ModelSet(last.env)) =>
       At(After, ModelPath \o <<"primary">>) = Concat(Str("ollama/"), last.env.model)
  /\ (last.ran /\ ~ModelSet(last.env)) => At(After, ModelPath) = At(Before, ModelPath)

\* C6: every run ends with exit code 0, whichever step fails, and a file
\* that does not parse is replaced by the defaults.
C6_AlwaysExitsZero ==
  /\ last.ran => last.exit = 0
  /\ (last.ran /\ last.before.kind \in {"malformed", "empty"} /\ last.fault # "write") =>
       /\ last.outcome = "saved"
       /\ At(After, <<"gateway", "mode">>) = Str("local")
       /\ At(After, ToolsPath \o <<"profile">>) = Str("standard")

\* a run whose write fails after the file is opened, on a file that held a
\* document: the file is left empty and the exit code is 0
C6_Witness ==
  /\ last.ran /\ last.fault = "write" /\ last.outcome = "threw" /\ last.exit = 0
  /\ last.before.kind = "json" /\ file = Empty

\* C7: a run in which the base URL or the API key is missing leaves the
\* models subtree and agents.defaults.model as the loaded document held them.
C7_SkippedNotReset ==
  (last.ran /\ ~UrlAndKeySet(last.env)) =>
    /\ At(After, <<"models">>) = At(Before, <<"models">>)
    /\ At(After, ModelPath) = At(Before, ModelPath)

\* a run with the base URL alone, on a file that holds the provider entry an
\* earlier run wrote
C7_Witness ==
  /\ Saved /\ last.env.url = Url1 /\ last.env.key \in Falsy
  /\ At(After, OllamaPath \o <<"baseUrl">>) = Url1
  /\ At(After, OllamaPath \o <<"models">>) # Undef

\* C8: every key of the loaded document whose path is unrelated to the
\* assigned paths is in the saved document with the same value.
C8_UnknownKeysSurvive ==
  last.ran =>
    \A p \in KeyPaths(Before) : Unassigned(p) => At(After, p) = At(Before, p)

\* C9: the document a run saves has the four required gateway settings,
\* whatever the loaded document held at gateway.
C9_GatewayForced ==
  Saved =>
    /\ At(After, <<"gateway", "mode">>) = Str("local")
    /\ At(After, <<"gateway", "bind">>) = Str("lan")
    /\ At(After, <<"gateway", "controlUi", "allowInsecureAuth">>) = Bool(TRUE)
    /\ At(After, <<"gateway", "auth", "mode">>) = Str("token")

\* the code units of the decimal digits
DigitUnits == { CodeUnit(c) : c \in DigitChars }

\* the text of a positive integer
IsPositiveInteger(x) ==
  /\ x.t = "str" /\ Len(CodeUnitsOf(x)) > 0
  /\ \A i \in 1..Len(CodeUnitsOf(x)) : CodeUnitsOf(x)[i] \in DigitUnits
  /\ \E i \in 1..Len(CodeUnitsOf(x)) : CodeUnitsOf(x)[i] # CodeUnit("0")

\* a text with no digit in it
IsNonNumeric(x) ==
  x.t = "str" /\ \A i \in 1..Len(CodeUnitsOf(x)) : CodeUnitsOf(x)[i] \notin DigitUnits

\* the number a text of digits writes, none of its digits lost
ExactNumber(x) ==
  NumberOf(FALSE, [inf |-> FALSE,
                   d |-> Strip([i \in 1..Len(CodeUnitsOf(x)) |-> DigitValue(CodeUnitsOf(x)[i])])])

\* v is a number above zero
IsPositive(v) ==
  v.t = "num" /\ (IF v.s = "" THEN v.n > 0 ELSE v.s # "NaN" /\ ~IsNegative(v))

\* C10: the entry a run appends has contextWindow > 0 and
\* maxTokens = min(8192, floor(contextWindow / 4)), contextWindow being the
\* supplied value when that is a positive integer and 32768 when it is unset
\* or not a number.
C10_AppendedEntrySized ==
  (Saved /\ Len(ModelsOf(After)) = Len(ModelsOf(Before)) + 1) =>
    LET e == ModelsOf(After)[Len(ModelsOf(After))]
        cw == GetP(e, "contextWindow")
    IN /\ IsPositive(cw)
       /\ GetP(e, "maxTokens") =
            (IF cw.s # "" \/ cw.n \div 4 >= 8192 THEN Num(8192) ELSE Num(cw.n \div 4))
       /\ IsPositiveInteger(last.env.ctx) => cw = ExactNumber(last.env.ctx)
       /\ (last.env.ctx = Unset \/ IsNonNumeric(last.env.ctx)) => cw = Num(32768)

====
